---- MODULE Spec2Model ----
(***************************************************************************)
(* MKPINS (src/mkpins.c): reads a comma-delimited pinout table, builds the *)
(* pin table pins[], writes one declaration per accepted pin to the C and  *)
(* H output files while parsing, then folds the table into the LPC17xx     *)
(* register images PINSEL, PINMODE, PINMODE_OD, FIODIR, FIOPIN, FIOMASK    *)
(* and prints them as #define constants.                                   *)
(*                                                                         *)
(* Text is modelled as sequences of one-character strings.  An input line  *)
(* is the sequence of its comma-separated raw fields (what strcspn(",")    *)
(* cuts out of the line buffer); the end-of-line character stays in the    *)
(* last field, as it does in the program, which never trims data lines.    *)
(* A C int or unsigned long is modelled as the set of its one bits, so     *)
(* that 32-bit and 64-bit values are exact.                                *)
(***************************************************************************)
EXTENDS Integers, Sequences, FiniteSets, TLC

VARIABLES
    pc,          \* position in main()
    line,        \* global line[]: the line fgets read last
    brk,         \* how the read loop of main() was left
    lineno,      \* lines counted so far (the header line included)
    seqno,       \* entries saved so far
    nseqs,       \* global nseqs, set after the read loop
    exit_code,   \* exit_code of main()
    pins,        \* global pins[]: the entries saved, pins[1] is C's pins[0]
    i,           \* loop index of the calc_* pass that is running
    longbits,    \* width of unsigned long in this build (32 or 64)
    PINSEL, PINMODE, PINMODE_OD, FIODIR, FIOPIN, FIOMASK,
    fouth,       \* what has been written to the H file
    foutc,       \* what has been written to the C file
    batch_h,     \* per-pin declarations an emit-after-parsing run writes (H)
    batch_c      \* the same for the C file

vars == <<pc, line, brk, lineno, seqno, nseqs, exit_code, pins, i, longbits,
          PINSEL, PINMODE, PINMODE_OD, FIODIR, FIOPIN, FIOMASK,
          fouth, foutc, batch_h, batch_c>>

regs == <<PINSEL, PINMODE, PINMODE_OD, FIODIR, FIOPIN, FIOMASK>>

(***************************************************************************)
(* Bounds of the model.  MAXPINS is 256 in the program (line 108); the     *)
(* model runs the same code with a small table.                            *)
(***************************************************************************)
MAXPINS == 3
MaxLines == 4
MaxTab == 2

\* program constants
NA == 255
\* IN and OUT of line 518-519 (IN is a reserved word of TLA+)
DIR_IN == 1
DIR_OUT == 0
NFIELDS == 14
NSEL == 11
NPORTS == 5
NMODEPRINTED == 10
INTBITS == 32

(***************************************************************************)
(* Characters and sscanf("%d")                                             *)
(***************************************************************************)
Digits == <<"0", "1", "2", "3", "4", "5", "6", "7", "8", "9">>

IsDigit(c) == \E d \in 1..10 : Digits[d] = c

DigitVal(c) == (CHOOSE d \in 1..10 : Digits[d] = c) - 1

IsSpace(c) == c \in {" ", "\n", "\t", "\r"}

RECURSIVE SkipSpace(_)
SkipSpace(s) ==
    IF s # <<>> /\ IsSpace(Head(s)) THEN SkipSpace(Tail(s)) ELSE s

\* the digits at the front of s: [n |-> how many, v |-> their value]
RECURSIVE ScanDigits(_, _, _)
ScanDigits(s, n, v) ==
    IF s # <<>> /\ IsDigit(Head(s))
    THEN ScanDigits(Tail(s), n + 1, 10 * v + DigitVal(Head(s)))
    ELSE [n |-> n, v |-> v]

\* sscanf(field, "%d", &itemp): [n |-> the return value, v |-> itemp]
sscanf_d(field) ==
    LET s    == SkipSpace(field)
        neg  == s # <<>> /\ Head(s) = "-"
        sgn  == s # <<>> /\ Head(s) \in {"-", "+"}
        d    == ScanDigits(IF sgn THEN Tail(s) ELSE s, 0, 0)
    IN  IF d.n = 0 THEN [n |-> 0, v |-> 0]
        ELSE [n |-> 1, v |-> IF neg THEN 0 - d.v ELSE d.v]

\* strncmp(s, t, Len(t)) = 0
strncmp_eq(s, t) ==
    /\ Len(s) >= Len(t)
    /\ \A k \in 1..Len(t) : s[k] = t[k]

\* the copy loop of lines 286-292: drop a double quote at either edge
StripQuotes(raw) ==
    LET len == Len(raw)
        keep(j) == ~((j = 1 /\ raw[j] = "\"") \/ (j = len /\ raw[j] = "\""))
    IN  SelectSeq([j \in 1..len |-> <<j, raw[j]>>], LAMBDA p : keep(p[1]))

FieldText(raw) ==
    LET kept == StripQuotes(raw) IN [j \in 1..Len(kept) |-> kept[j][2]]

(***************************************************************************)
(* The record parser: the body of the read loop of main(), lines 246-373   *)
(***************************************************************************)
\* the locals of main() as lines 251-267 reset them for every line
FreshLocals ==
    [seq |-> 0, pinnum |-> 0, port |-> 0, bit |-> 0,
     altfunc1 |-> <<>>, altfunc2 |-> <<>>, altfunc3 |-> <<>>, signame |-> <<>>,
     func |-> NA, inout |-> NA, mode |-> 0, odrain |-> 0, def |-> 0,
     active |-> 1]

\* mutant: the whole first field is compared with "END" (strcmp)
IsEND_strcmp(l) == l # <<>> /\ l[1] = <<"E", "N", "D">>

\* the line's first three characters are "END" (line 248)
IsEND(l) == l # <<>> /\ strncmp_eq(l[1], <<"E", "N", "D">>)

\* raw text of field idx (0-based); past the end of the line strcspn finds
\* nothing, so the field is empty
RawField(l, idx) == IF idx + 1 <= Len(l) THEN l[idx + 1] ELSE <<>>

\* a required integer field (fields 0, 1, 2, 3): store it or goto MYERROR
Required(st, name, field) ==
    LET sc == sscanf_d(field)
    IN  IF sc.n = 1 THEN [ctl |-> "next", st |-> [st EXCEPT ![name] = sc.v]]
        ELSE [ctl |-> "MYERROR", st |-> st]

\* mutant: an optional field that does not parse is fatal too
Optional_required(st, name, field) ==
    LET sc == sscanf_d(field)
    IN  IF sc.n = 1 THEN [ctl |-> "next", st |-> [st EXCEPT ![name] = sc.v]]
        ELSE [ctl |-> "MYERROR", st |-> st]

\* an optional integer field (fields 8..13): store it when it parses
Optional(st, name, field) ==
    LET sc == sscanf_d(field)
    IN  [ctl |-> "next",
         st  |-> IF sc.n = 1 THEN [st EXCEPT ![name] = sc.v] ELSE st]

\* a text field (fields 4..7): strncpy when strlen(field) > 1
TextField(st, name, field) ==
    [ctl |-> "next",
     st  |-> IF Len(field) > 1 THEN [st EXCEPT ![name] = field] ELSE st]

\* lines 295-342: what field idx does to the locals
ParseField(st, idx, raw) ==
    LET field == FieldText(raw)
    IN  IF Len(raw) = 0 THEN [ctl |-> "next", st |-> st]
        ELSE CASE idx = 0 -> Required(st, "seq", field)
               [] idx = 1 -> IF strncmp_eq(field, <<"N", "/", "A">>)
                             THEN [ctl |-> "break", st |-> st]
                             ELSE Required(st, "pinnum", field)
               [] idx = 2 -> Required(st, "port", field)
               [] idx = 3 -> Required(st, "bit", field)
               [] idx = 4 -> TextField(st, "altfunc1", field)
               [] idx = 5 -> TextField(st, "altfunc2", field)
               [] idx = 6 -> TextField(st, "altfunc3", field)
               [] idx = 7 -> TextField(st, "signame", field)
               [] idx = 8 -> Optional(st, "func", field)
               [] idx = 9 -> Optional(st, "inout", field)
               [] idx = 10 -> Optional(st, "mode", field)
               [] idx = 11 -> Optional(st, "odrain", field)
               [] idx = 12 -> Optional(st, "def", field)
               [] OTHER -> Optional(st, "active", field)

\* the field loop of lines 276-345, from field idx on:
\* [ctl |-> "done" | "break" | "MYERROR", i |-> the field it stopped at, st]
RECURSIVE ScanFields(_, _, _)
ScanFields(l, idx, st) ==
    IF idx >= NFIELDS THEN [ctl |-> "done", i |-> idx, st |-> st]
    ELSE LET r == ParseField(st, idx, RawField(l, idx))
         IN  IF r.ctl = "next" THEN ScanFields(l, idx + 1, r.st)
             ELSE [ctl |-> r.ctl, i |-> idx, st |-> r.st]

\* mutant: the test of the signal name is missing
SkipLine_pinonly(st) == st.pinnum = 0

\* the two tests of lines 347-348 that drop a scanned line
SkipLine(st) == st.pinnum = 0 \/ Len(st.signame) = 0

\* mutant: the entry keeps the item number read from the line
FillPindef_inputseq(st, n) ==
    [seq |-> st.seq, pinnum |-> st.pinnum, port |-> st.port, bit |-> st.bit,
     altfunc1 |-> st.altfunc1, altfunc2 |-> st.altfunc2,
     altfunc3 |-> st.altfunc3, signame |-> st.signame,
     func |-> st.func, inout |-> st.inout, mode |-> st.mode,
     odrain |-> st.odrain, def |-> st.def, active |-> st.active]

\* lines 351-364: the entry *pd filled from the locals
FillPindef(st, n) ==
    [seq |-> n, pinnum |-> st.pinnum, port |-> st.port, bit |-> st.bit,
     altfunc1 |-> st.altfunc1, altfunc2 |-> st.altfunc2,
     altfunc3 |-> st.altfunc3, signame |-> st.signame,
     func |-> st.func, inout |-> st.inout, mode |-> st.mode,
     odrain |-> st.odrain, def |-> st.def, active |-> st.active]

\* what one data line leads to: "END", "MYERROR", "skip" or "accept"
LineOutcome(l) ==
    IF IsEND(l) THEN [kind |-> "END", i |-> 0, st |-> FreshLocals]
    ELSE LET r == ScanFields(l, 0, FreshLocals)
         IN  IF r.ctl = "MYERROR" THEN [kind |-> "MYERROR", i |-> r.i, st |-> r.st]
             ELSE IF SkipLine(r.st) THEN [kind |-> "skip", i |-> r.i, st |-> r.st]
             ELSE [kind |-> "accept", i |-> r.i, st |-> r.st]

\* mutant: off by one in the capacity test
TableFull_gt(n) == n > MAXPINS

\* line 371: the table is full
TableFull(n) == n >= MAXPINS

(***************************************************************************)
(* C integers as sets of one bits                                          *)
(***************************************************************************)
\* the bits of the int n (two's complement, INTBITS wide)
RECURSIVE Pow2(_)
Pow2(k) == IF k = 0 THEN 1 ELSE 2 * Pow2(k - 1)

NatBits(n) == {b \in 0..(INTBITS - 2) : (n \div Pow2(b)) % 2 = 1}

IntBits(n) ==
    IF n >= 0 THEN NatBits(n) ELSE (0..(INTBITS - 1)) \ NatBits(0 - n - 1)

\* x << k on int, for a shift count 0 <= k < INTBITS; bits shifted past
\* the sign bit are lost (what every two's complement build computes)
ShiftLeft(x, k) == {b + k : b \in x} \cap (0..(INTBITS - 1))

\* ~x on int
BitNot(x) == (0..(INTBITS - 1)) \ x

\* an int converted to unsigned long: a negative int is sign-extended
\* when unsigned long is wider than int
ToULong(x) ==
    IF (INTBITS - 1) \in x THEN x \cup ((INTBITS - 1)..(longbits - 1)) ELSE x

\* 0xffffffffL converted to unsigned long
AllOnes32 == 0..31

(***************************************************************************)
(* The register accumulator: one loop iteration of each calc_* function    *)
(***************************************************************************)
\* lines 549-555: sub-register and shift of a pin in PINSEL
PinselTarget(p) ==
    IF p.bit < 16 THEN [reg |-> p.port * 2, bit2 |-> 2 * p.bit]
    ELSE [reg |-> 1 + p.port * 2, bit2 |-> 2 * (p.bit - 16)]

\* mutant: bit 16 is put in the lower sub-register
PinmodeTarget_le16(p) ==
    IF p.bit <= 16 THEN [reg |-> p.port * 2, bit2 |-> 2 * p.bit]
    ELSE [reg |-> 1 + p.port * 2, bit2 |-> 2 * (p.bit - 16)]

\* lines 579-585: the same computation, written again in calc_PINMODE
PinmodeTarget(p) ==
    IF p.bit < 16 THEN [reg |-> p.port * 2, bit2 |-> 2 * p.bit]
    ELSE [reg |-> 1 + p.port * 2, bit2 |-> 2 * (p.bit - 16)]

\* lines 556-557: R[reg] &= ~(0x03 << bit2); R[reg] |= (value << bit2)
SetPair(R, t, value) ==
    LET cleared == R[t.reg] \cap ToULong(BitNot(ShiftLeft({0, 1}, t.bit2)))
    IN  [R EXCEPT ![t.reg] = cleared \cup ToULong(ShiftLeft(IntBits(value), t.bit2))]

\* R[port] |= (1<<bit)
SetBit(R, p) == [R EXCEPT ![p.port] = @ \cup ToULong(ShiftLeft({0}, p.bit))]

\* R[port] &= ~(1<<bit)
ClearBit(R, p) ==
    [R EXCEPT ![p.port] = @ \cap ToULong(BitNot(ShiftLeft({0}, p.bit)))]

\* lines 546-557
PinselStep(R, p) == SetPair(R, PinselTarget(p), p.func)

\* lines 575-587
PinmodeStep(R, p) == SetPair(R, PinmodeTarget(p), p.mode)

\* lines 588-589
PinmodeOdStep(R, p) ==
    LET R1 == IF p.odrain = 1 THEN SetBit(R, p) ELSE R
    IN  IF p.odrain = 0 THEN ClearBit(R1, p) ELSE R1

\* mutant: a pin that is not an input is taken to be an output
FiodirStep_default_out(R, p) ==
    IF p.inout = DIR_IN THEN ClearBit(R, p) ELSE SetBit(R, p)

\* lines 525-529
FiodirStep(R, p) ==
    LET R1 == IF p.inout = DIR_IN THEN ClearBit(R, p) ELSE R
    IN  IF p.inout = DIR_OUT THEN SetBit(R1, p) ELSE R1

\* lines 610-614
FiopinStep(R, p) ==
    LET R1 == IF p.def = 0 THEN ClearBit(R, p) ELSE R
    IN  IF p.def = 1 THEN SetBit(R1, p) ELSE R1

\* mutant: every function number of the 2-bit field counts as GPIO
FiomaskStep_anyfunc(R, p) == IF p.func <= 3 THEN ClearBit(R, p) ELSE R

\* lines 635-638
FiomaskStep(R, p) == IF p.func = 0 THEN ClearBit(R, p) ELSE R

(***************************************************************************)
(* The register accesses of the passes.  The parser checks no range, so an *)
(* index can lie outside its array and a shift count outside 0..31; what   *)
(* the access does then is not defined by C, and the outcomes differ from  *)
(* build to build and run to run.                                          *)
(***************************************************************************)
\* the six images, in the order of their declarations (lines 113-118)
FamOrder == <<"PINSEL", "PINMODE", "PINMODE_OD", "FIODIR", "FIOPIN", "FIOMASK">>

FamSize(fam) == IF fam \in {"PINSEL", "PINMODE"} THEN NSEL ELSE NPORTS

\* the images the run has computed
Images ==
    [PINSEL |-> PINSEL, PINMODE |-> PINMODE, PINMODE_OD |-> PINMODE_OD,
     FIODIR |-> FIODIR, FIOPIN |-> FIOPIN, FIOMASK |-> FIOMASK]

\* R[idx] &= ~(1<<shift), or R[idx] |= (1<<shift), when the test holds
BitAccess(fam, p, op, test) ==
    IF test
    THEN <<[fam |-> fam, idx |-> p.port, shift |-> p.bit, op |-> op, value |-> 1]>>
    ELSE <<>>

\* the accesses of one loop iteration of each pass, in program order
PinselAccesses(p) ==
    <<[fam |-> "PINSEL", idx |-> PinselTarget(p).reg,
       shift |-> PinselTarget(p).bit2, op |-> "pair", value |-> p.func]>>

PinmodeAccesses(p) ==
    <<[fam |-> "PINMODE", idx |-> PinmodeTarget(p).reg,
       shift |-> PinmodeTarget(p).bit2, op |-> "pair", value |-> p.mode]>>
    \o BitAccess("PINMODE_OD", p, "set", p.odrain = 1)
    \o BitAccess("PINMODE_OD", p, "clear", p.odrain = 0)

FiodirAccesses(p) ==
    BitAccess("FIODIR", p, "clear", p.inout = DIR_IN)
    \o BitAccess("FIODIR", p, "set", p.inout = DIR_OUT)

FiopinAccesses(p) ==
    BitAccess("FIOPIN", p, "clear", p.def = 0)
    \o BitAccess("FIOPIN", p, "set", p.def = 1)

FiomaskAccesses(p) == BitAccess("FIOMASK", p, "clear", p.func = 0)

IndexDefined(a) == a.idx \in 0..(FamSize(a.fam) - 1)

ShiftDefined(a) == a.shift \in 0..(INTBITS - 1)

AllDefined(accs) ==
    \A k \in 1..Len(accs) : IndexDefined(accs[k]) /\ ShiftDefined(accs[k])

\* how a build lays the images out in memory, in slots of one unsigned
\* long: one after the other without gaps, or each array on a 32-byte
\* boundary with 8-byte elements
Layouts ==
    {[fam \in {FamOrder[k] : k \in 1..Len(FamOrder)} |-> FamSize(fam)],
     [fam \in {FamOrder[k] : k \in 1..Len(FamOrder)} |->
          IF fam \in {"PINSEL", "PINMODE"} THEN NSEL + 1 ELSE NPORTS + 3]}

RECURSIVE Base(_, _)
Base(layout, k) == IF k = 1 THEN 0 ELSE Base(layout, k - 1) + layout[FamOrder[k - 1]]

FamIndex(fam) == CHOOSE k \in 1..Len(FamOrder) : FamOrder[k] = fam

\* every element of every image
Elements ==
    UNION {{<<FamOrder[g], j>> : j \in 0..(FamSize(FamOrder[g]) - 1)} :
              g \in 1..Len(FamOrder)}

\* the elements of the images that fam[idx] can fall on when idx is outside
\* the array
Landing(fam, idx) ==
    {pl \in Elements : \E l \in Layouts :
        Base(l, FamIndex(fam)) + idx = Base(l, FamIndex(pl[1])) + pl[2]}

\* the read-modify-write of access a done on element idx of image fam with
\* shift count sh
Write(M, fam, idx, sh, a) ==
    [M EXCEPT ![fam] =
        CASE a.op = "pair" -> SetPair(@, [reg |-> idx, bit2 |-> sh], a.value)
          [] a.op = "set" -> SetBit(@, [port |-> idx, bit |-> sh])
          [] OTHER -> ClearBit(@, [port |-> idx, bit |-> sh])]

\* what one access can leave behind.  Inside the array and with a shift
\* count 0..31 it is the write itself.  An index outside the array: the
\* process is killed, or the write falls on memory outside the images, or
\* on an element of an image.  A shift count outside 0..31: the processor
\* uses the count modulo 32, or the shifted value is 0 and the word is
\* written back as it was.
AccessOutcomes(M, a) ==
    LET places == IF IndexDefined(a) THEN {<<a.fam, a.idx>>}
                  ELSE Landing(a.fam, a.idx)
        counts == IF ShiftDefined(a) THEN {a.shift} ELSE {a.shift % INTBITS}
    IN  {[killed |-> FALSE, M |-> Write(M, pl[1], pl[2], sh, a)] :
              pl \in places, sh \in counts}
        \cup (IF IndexDefined(a) THEN {}
              ELSE {[killed |-> TRUE, M |-> M], [killed |-> FALSE, M |-> M]})
        \cup (IF ShiftDefined(a) THEN {} ELSE {[killed |-> FALSE, M |-> M]})

\* the accesses of one iteration one after the other; nothing follows
\* once the process is killed
RECURSIVE RunAccesses(_, _)
RunAccesses(M, accs) ==
    IF accs = <<>> THEN {[killed |-> FALSE, M |-> M]}
    ELSE UNION {IF o.killed THEN {o} ELSE RunAccesses(o.M, Tail(accs)) :
                    o \in AccessOutcomes(M, Head(accs))}

(***************************************************************************)
(* The emitter.  An output file is the sequence of the things written to   *)
(* it; every item has the same shape:                                      *)
(*   kind  what is written, name  the signal name in it, idx  the index in *)
(*   the symbol, bits  the register value printed, pd  the entry printed   *)
(***************************************************************************)
NoPin == FillPindef(FreshLocals, 0 - 1)

Item(kind, name, idx, bits, pd) ==
    [kind |-> kind, name |-> name, idx |-> idx, bits |-> bits, pd |-> pd]

Plain(kind) == Item(kind, <<>>, 0, {}, NoPin)

\* line 478: extern const PREFIX_PINDEF PREFIX_signame;
print_pindef_h(pd) == Item("extern", pd.signame, 0, {}, NoPin)

\* lines 482-487: const PREFIX_PINDEF PREFIX_signame = { ... };
print_pindef_c(pd) == Item("const", pd.signame, 0, {}, pd)

\* lines 493-495
print_pinarray_h(n) == <<Item("NUM_PINDEFS", <<>>, n, {}, NoPin), Plain("extern_PINS")>>

\* lines 501-514: the array of pointers, one per entry, in table order
print_pinarray_c(tab, n) ==
    <<Plain("PINS_open")>>
    \o [j \in 1..n |-> Item("PINS_elem", tab[j].signame, 0, {}, NoPin)]
    \o <<Plain("PINS_close")>>

\* the loop  for(i=0;i<count;i++) fprintf("#define PREFIX_<family>i_INIT (0x%08lx)")
PrintRegs(family, R, count) ==
    [j \in 1..count |-> Item(family, <<>>, j - 1, R[j - 1], NoPin)]

\* lines 561-567
print_PINSEL(R) == PrintRegs("PINSEL_INIT", R, NSEL)

\* lines 593-603
print_PINMODE(R, OD) ==
    PrintRegs("PINMODE_INIT", R, NMODEPRINTED) \o PrintRegs("PINMODE_OD_INIT", OD, NPORTS)

\* lines 533-539
print_FIODIR(R) == PrintRegs("FIODIR_INIT", R, NPORTS)

\* lines 618-624
print_FIOPIN(R) == PrintRegs("FIOPIN_INIT", R, NPORTS)

\* lines 642-648
print_FIOMASK(R) == PrintRegs("FIOMASK_INIT", R, NPORTS)

RECURSIVE Flatten(_)
Flatten(ss) == IF ss = <<>> THEN <<>> ELSE Head(ss) \o Flatten(Tail(ss))

\* lines 691-702: two #defines per entry
print_bit_defines(tab, n) ==
    Flatten([j \in 1..n |->
        <<Item("PORT", tab[j].signame, tab[j].port, {}, NoPin),
          Item("BIT", tab[j].signame, tab[j].bit, {}, NoPin)>>])

\* lines 654-689: the accessor macros of one entry
BitMacros(p) ==
    LET m(kind) == Item(kind, p.signame, p.bit, {}, NoPin)
    IN  <<m("GET")>> \o
        (IF p.odrain = 1 THEN <<m("OPEN_FIOSET"), m("SINK_FIOCLR")>>
         ELSE <<m("SET_FIOSET"), m("CLR_FIOCLR")>> \o
              (IF p.active = 1
               THEN <<m("ON_FIOSET"), m("OFF_FIOCLR"), m("QON")>>
               ELSE IF p.active = 0
               THEN <<m("ON_FIOCLR"), m("OFF_FIOSET"), m("QON_inverted")>>
               ELSE <<>>))

print_bit_macros(tab, n) == Flatten([j \in 1..n |-> BitMacros(tab[j])])

\* the per-pin declarations an emit-after-parsing run writes once the read
\* loop has ended normally (section 4.1 and 9 of the specification)
BatchDecls_h(tab) == [j \in 1..Len(tab) |-> print_pindef_h(tab[j])]

BatchDecls_c(tab) == [j \in 1..Len(tab) |-> print_pindef_c(tab[j])]

(***************************************************************************)
(* The input lines the model reads.  Each is a sequence of raw fields.     *)
(***************************************************************************)
Quoted(t) == <<"\"">> \o t \o <<"\"">>

NL == <<"\n">>

RowHeader == << Quoted(<<"I", "T", "E", "M">>), Quoted(<<"P", "I", "N">>), NL >>

\* rows that are accepted
RowTX ==    \* 1,46,0,0,"RD1","TXD3","SDA1","TX",2,0,,,,
    << <<"1">>, <<"4", "6">>, <<"0">>, <<"0">>, Quoted(<<"R", "D", "1">>),
       Quoted(<<"T", "X", "D", "3">>), Quoted(<<"S", "D", "A", "1">>),
       Quoted(<<"T", "X">>), <<"2">>, <<"0">>, <<>>, <<>>, <<>>, NL >>

RowRX ==    \* 2,47,0,1,"TD1",,,"RX",0,1,3,1,1,0
    << <<"2">>, <<"4", "7">>, <<"0">>, <<"1">>, Quoted(<<"T", "D", "1">>),
       <<>>, <<>>, Quoted(<<"R", "X">>), <<"0">>, <<"1">>, <<"3">>, <<"1">>,
       <<"1">>, <<"0", "\n">> >>

RowLED ==   \* 9,48,0,15,,,,LED,,,,,,       (function and direction left blank)
    << <<"9">>, <<"4", "8">>, <<"0">>, <<"1", "5">>, <<>>, <<>>, <<>>,
       <<"L", "E", "D">>, <<>>, <<>>, <<>>, <<>>, <<>>, NL >>

RowSW ==    \* -7, 95,4,31,,,,"SW",x,0      (a short row, function unparsable)
    << <<"-", "7">>, <<" ", "9", "5">>, <<"4">>, <<"3", "1">>, <<>>, <<>>,
       <<>>, Quoted(<<"S", "W">>), <<"x">>, <<"0", "\n">> >>

\* rows that are dropped
RowZeroPin ==   \* 3,0,1,2,,,,"NC",1,1
    << <<"3">>, <<"0">>, <<"1">>, <<"2">>, <<>>, <<>>, <<>>,
       Quoted(<<"N", "C">>), <<"1">>, <<"1", "\n">> >>

RowNA ==        \* 4,N/A,P0,b,,,,"NB"
    << <<"4">>, <<"N", "/", "A">>, <<"P", "0">>, <<"b">>, <<>>, <<>>, <<>>,
       Quoted(<<"N", "B">>), NL >>

RowNoName ==    \* 5,51,0,2,"A1",,,,1,0,,,,
    << <<"5">>, <<"5", "1">>, <<"0">>, <<"2">>, Quoted(<<"A", "1">>), <<>>,
       <<>>, <<>>, <<"1">>, <<"0">>, <<>>, <<>>, <<>>, NL >>

RowOneChar ==   \* 6,52,0,3,,,,Q,0,0
    << <<"6">>, <<"5", "2">>, <<"0">>, <<"3">>, <<>>, <<>>, <<>>, <<"Q">>,
       <<"0">>, <<"0", "\n">> >>

RowNoPin ==     \* 8,,0,4,,,,"NP"
    << <<"8">>, <<>>, <<"0">>, <<"4">>, <<>>, <<>>, <<>>,
       Quoted(<<"N", "P">>), NL >>

\* rows with a field that does not parse
RowBadItem ==   \* x,46,0,0,,,,"BI"
    << <<"x">>, <<"4", "6">>, <<"0">>, <<"0">>, <<>>, <<>>, <<>>,
       Quoted(<<"B", "I">>), NL >>

RowBlank == << NL >>    \* an empty line

RowBadPin ==    \* 1,abc,0,0,,,,"BP"
    << <<"1">>, <<"a", "b", "c">>, <<"0">>, <<"0">>, <<>>, <<>>, <<>>,
       Quoted(<<"B", "P">>), NL >>

RowBadPort ==   \* 1,46,P0,0,,,,"BQ"
    << <<"1">>, <<"4", "6">>, <<"P", "0">>, <<"0">>, <<>>, <<>>, <<>>,
       Quoted(<<"B", "Q">>), NL >>

RowBadBit ==    \* 1,46,0,b,,,,"BR"
    << <<"1">>, <<"4", "6">>, <<"0">>, <<"b">>, <<>>, <<>>, <<>>,
       Quoted(<<"B", "R">>), NL >>

RowZeroPinBadPort ==    \* 3,0,P0,2,,,,"NC"
    << <<"3">>, <<"0">>, <<"P", "0">>, <<"2">>, <<>>, <<>>, <<>>,
       Quoted(<<"N", "C">>), NL >>

RowNoNameBadBit ==      \* 5,51,0,b,,,,,
    << <<"5">>, <<"5", "1">>, <<"0">>, <<"b">>, <<>>, <<>>, <<>>, <<>>, NL >>

RowNABadItem ==         \* x,N/A,0,0,,,,"NB"
    << <<"x">>, <<"N", "/", "A">>, <<"0">>, <<"0">>, <<>>, <<>>, <<>>,
       Quoted(<<"N", "B">>), NL >>

RowQuotedEND == << Quoted(<<"E", "N", "D">>), NL >>     \* "END"

\* rows that begin with END
RowEND == << <<"E", "N", "D", "\n">> >>

RowENDData ==   \* END,46,P0,0,,,,"TX"
    << <<"E", "N", "D">>, <<"4", "6">>, <<"P", "0">>, <<"0">>, <<>>, <<>>,
       <<>>, Quoted(<<"T", "X">>), NL >>

Lines ==
    {RowTX, RowRX, RowLED, RowSW,
     RowZeroPin, RowNA, RowNoName, RowOneChar, RowNoPin,
     RowBadItem, RowBlank, RowBadPin, RowBadPort, RowBadBit,
     RowZeroPinBadPort, RowNoNameBadBit, RowNABadItem, RowQuotedEND,
     RowEND, RowENDData}

(***************************************************************************)
(* main(): the state at line 246, and the read loop                        *)
(***************************************************************************)
ZeroRegs(count) == [r \in 0..(count - 1) |-> {}]

\* lines 221-244: registers zeroed, counters set, header line read and
\* counted, file headers printed
Init ==
    /\ pc = "loop"
    /\ line = RowHeader
    /\ brk = "none"
    /\ lineno = 1
    /\ seqno = 0
    /\ nseqs = 0
    /\ exit_code = 0
    /\ pins = <<>>
    /\ i = 0
    /\ longbits \in {32, 64}
    /\ PINSEL = ZeroRegs(NSEL)
    /\ PINMODE = ZeroRegs(NSEL)
    /\ PINMODE_OD = ZeroRegs(NPORTS)
    /\ FIODIR = ZeroRegs(NPORTS)
    /\ FIOPIN = ZeroRegs(NPORTS)
    /\ FIOMASK = ZeroRegs(NPORTS)
    /\ fouth = <<Plain("headers_note"), Plain("headers_h")>>
    /\ foutc = <<Plain("headers_note"), Plain("headers_c")>>
    /\ batch_h = <<>>
    /\ batch_c = <<>>

\* the read loop is left normally (fgets fails, END, table full): line 374
LeaveLoop(how, tab, n) ==
    /\ pc' = "print_pinarray"
    /\ brk' = how
    /\ nseqs' = n
    /\ batch_h' = BatchDecls_h(tab)
    /\ batch_c' = BatchDecls_c(tab)

\* line 246: fgets returns NULL
main_EOF ==
    /\ pc = "loop"
    /\ LeaveLoop("EOF", pins, seqno)
    /\ UNCHANGED <<line, lineno, seqno, exit_code, pins, i, longbits, regs, fouth, foutc>>

\* line 248: the line begins with END
main_END ==
    /\ pc = "loop"
    /\ \E l \in Lines : \E o \in {LineOutcome(l)} : o.kind = "END" /\ line' = l
    /\ LeaveLoop("END", pins, seqno)
    /\ UNCHANGED <<lineno, seqno, exit_code, pins, i, longbits, regs, fouth, foutc>>

\* lines 249-314 and 404-413: a required field does not parse
main_MYERROR ==
    /\ pc = "loop"
    /\ lineno <= MaxLines
    /\ \E l \in Lines : \E o \in {LineOutcome(l)} : o.kind = "MYERROR" /\ line' = l
    /\ lineno' = lineno + 1
    /\ exit_code' = 99
    /\ pc' = "exit"
    /\ brk' = "MYERROR"
    /\ UNCHANGED <<seqno, nseqs, pins, i, longbits, regs, fouth, foutc,
                   batch_h, batch_c>>

\* lines 249-348: the line is scanned and dropped
main_skip ==
    /\ pc = "loop"
    /\ lineno <= MaxLines
    /\ \E l \in Lines : \E o \in {LineOutcome(l)} : o.kind = "skip" /\ line' = l
    /\ lineno' = lineno + 1
    /\ UNCHANGED <<pc, brk, seqno, nseqs, exit_code, pins, i, longbits, regs,
                   fouth, foutc, batch_h, batch_c>>

\* mutant: the declaration is written to the H file only
main_accept_h_only ==
    /\ pc = "loop"
    /\ lineno <= MaxLines
    /\ \E l \in Lines : \E o \in {LineOutcome(l)} :
         /\ o.kind = "accept"
         /\ line' = l
         /\ \E pd \in {FillPindef(o.st, seqno)} :
              /\ fouth' = Append(fouth, print_pindef_h(pd))
              /\ foutc' = foutc
              /\ pins' = Append(pins, pd)
    /\ lineno' = lineno + 1
    /\ seqno' = seqno + 1
    /\ IF TableFull(seqno + 1)
       THEN LeaveLoop("MAXPINS", pins', seqno + 1)
       ELSE UNCHANGED <<pc, brk, nseqs, batch_h, batch_c>>
    /\ UNCHANGED <<exit_code, i, longbits, regs>>

\* lines 249-371: the line is scanned, printed and saved
main_accept ==
    /\ pc = "loop"
    /\ lineno <= MaxLines
    /\ \E l \in Lines : \E o \in {LineOutcome(l)} :
         /\ o.kind = "accept"
         /\ line' = l
         /\ \E pd \in {FillPindef(o.st, seqno)} :
              /\ fouth' = Append(fouth, print_pindef_h(pd))
              /\ foutc' = Append(foutc, print_pindef_c(pd))
              /\ pins' = Append(pins, pd)
    /\ lineno' = lineno + 1
    /\ seqno' = seqno + 1
    /\ IF TableFull(seqno + 1)
       THEN LeaveLoop("MAXPINS", pins', seqno + 1)
       ELSE UNCHANGED <<pc, brk, nseqs, batch_h, batch_c>>
    /\ UNCHANGED <<exit_code, i, longbits, regs>>

(***************************************************************************)
(* main() after the read loop: lines 374-402                               *)
(***************************************************************************)
parse == <<line, brk, lineno, seqno, nseqs, exit_code, pins, longbits, batch_h, batch_c>>

\* a loop iteration with an access that C leaves undefined: the process is
\* killed, or the loop goes on with the images one of the outcomes left
Undefined(accs) ==
    \E o \in RunAccesses(Images, accs) :
        /\ PINSEL' = o.M.PINSEL
        /\ PINMODE' = o.M.PINMODE
        /\ PINMODE_OD' = o.M.PINMODE_OD
        /\ FIODIR' = o.M.FIODIR
        /\ FIOPIN' = o.M.FIOPIN
        /\ FIOMASK' = o.M.FIOMASK
        /\ pc' = IF o.killed THEN "killed" ELSE pc
        /\ i' = IF o.killed THEN i ELSE i + 1

\* lines 377-378
main_print_pinarray ==
    /\ pc = "print_pinarray"
    /\ fouth' = fouth \o print_pinarray_h(nseqs)
    /\ foutc' = foutc \o print_pinarray_c(pins, nseqs)
    /\ pc' = "calc_PINSEL"
    /\ i' = 0
    /\ UNCHANGED <<parse, regs>>

\* one iteration of the loop of calc_PINSEL
calc_PINSEL ==
    /\ pc = "calc_PINSEL"
    /\ i < nseqs
    /\ IF AllDefined(PinselAccesses(pins[i + 1]))
       THEN /\ PINSEL' = PinselStep(PINSEL, pins[i + 1])
            /\ i' = i + 1
            /\ UNCHANGED <<pc, PINMODE, PINMODE_OD, FIODIR, FIOPIN, FIOMASK>>
       ELSE Undefined(PinselAccesses(pins[i + 1]))
    /\ UNCHANGED <<parse, fouth, foutc>>

\* calc_PINSEL returns; line 382
main_print_PINSEL ==
    /\ pc = "calc_PINSEL"
    /\ i >= nseqs
    /\ fouth' = fouth \o print_PINSEL(PINSEL)
    /\ pc' = "calc_PINMODE"
    /\ i' = 0
    /\ UNCHANGED <<parse, regs, foutc>>

\* one iteration of the loop of calc_PINMODE
calc_PINMODE ==
    /\ pc = "calc_PINMODE"
    /\ i < nseqs
    /\ IF AllDefined(PinmodeAccesses(pins[i + 1]))
       THEN /\ PINMODE' = PinmodeStep(PINMODE, pins[i + 1])
            /\ PINMODE_OD' = PinmodeOdStep(PINMODE_OD, pins[i + 1])
            /\ i' = i + 1
            /\ UNCHANGED <<pc, PINSEL, FIODIR, FIOPIN, FIOMASK>>
       ELSE Undefined(PinmodeAccesses(pins[i + 1]))
    /\ UNCHANGED <<parse, fouth, foutc>>

\* calc_PINMODE returns; line 385
main_print_PINMODE ==
    /\ pc = "calc_PINMODE"
    /\ i >= nseqs
    /\ fouth' = fouth \o print_PINMODE(PINMODE, PINMODE_OD)
    /\ pc' = "calc_FIODIR"
    /\ i' = 0
    /\ UNCHANGED <<parse, regs, foutc>>

\* one iteration of the loop of calc_FIODIR
calc_FIODIR ==
    /\ pc = "calc_FIODIR"
    /\ i < nseqs
    /\ IF AllDefined(FiodirAccesses(pins[i + 1]))
       THEN /\ FIODIR' = FiodirStep(FIODIR, pins[i + 1])
            /\ i' = i + 1
            /\ UNCHANGED <<pc, PINSEL, PINMODE, PINMODE_OD, FIOPIN, FIOMASK>>
       ELSE Undefined(FiodirAccesses(pins[i + 1]))
    /\ UNCHANGED <<parse, fouth, foutc>>

\* calc_FIODIR returns; line 388
main_print_FIODIR ==
    /\ pc = "calc_FIODIR"
    /\ i >= nseqs
    /\ fouth' = fouth \o print_FIODIR(FIODIR)
    /\ pc' = "calc_FIOPIN"
    /\ i' = 0
    /\ UNCHANGED <<parse, regs, foutc>>

\* one iteration of the loop of calc_FIOPIN
calc_FIOPIN ==
    /\ pc = "calc_FIOPIN"
    /\ i < nseqs
    /\ IF AllDefined(FiopinAccesses(pins[i + 1]))
       THEN /\ FIOPIN' = FiopinStep(FIOPIN, pins[i + 1])
            /\ i' = i + 1
            /\ UNCHANGED <<pc, PINSEL, PINMODE, PINMODE_OD, FIODIR, FIOMASK>>
       ELSE Undefined(FiopinAccesses(pins[i + 1]))
    /\ UNCHANGED <<parse, fouth, foutc>>

\* calc_FIOPIN returns; line 391
main_print_FIOPIN ==
    /\ pc = "calc_FIOPIN"
    /\ i >= nseqs
    /\ fouth' = fouth \o print_FIOPIN(FIOPIN)
    /\ pc' = "calc_FIOMASK_fill"
    /\ i' = 0
    /\ UNCHANGED <<parse, regs, foutc>>

\* line 633: every mask register is set to 0xffffffff
calc_FIOMASK_fill ==
    /\ pc = "calc_FIOMASK_fill"
    /\ FIOMASK' = [r \in 0..(NPORTS - 1) |-> AllOnes32]
    /\ pc' = "calc_FIOMASK"
    /\ i' = 0
    /\ UNCHANGED <<parse, PINSEL, PINMODE, PINMODE_OD, FIODIR, FIOPIN, fouth, foutc>>

\* one iteration of the second loop of calc_FIOMASK
calc_FIOMASK ==
    /\ pc = "calc_FIOMASK"
    /\ i < nseqs
    /\ IF AllDefined(FiomaskAccesses(pins[i + 1]))
       THEN /\ FIOMASK' = FiomaskStep(FIOMASK, pins[i + 1])
            /\ i' = i + 1
            /\ UNCHANGED <<pc, PINSEL, PINMODE, PINMODE_OD, FIODIR, FIOPIN>>
       ELSE Undefined(FiomaskAccesses(pins[i + 1]))
    /\ UNCHANGED <<parse, fouth, foutc>>

\* calc_FIOMASK returns; line 394
main_print_FIOMASK ==
    /\ pc = "calc_FIOMASK"
    /\ i >= nseqs
    /\ fouth' = fouth \o print_FIOMASK(FIOMASK)
    /\ pc' = "print_bits"
    /\ i' = 0
    /\ UNCHANGED <<parse, regs, foutc>>

\* lines 396-413: the per-pin defines and macros, the copy of the input
\* file as a comment block, and the successful exit
main_finish ==
    /\ pc = "print_bits"
    /\ fouth' = fouth \o print_bit_defines(pins, nseqs)
                      \o print_bit_macros(pins, nseqs)
                      \o <<Plain("print_file")>>
    /\ exit_code' = 0
    /\ pc' = "exit"
    /\ UNCHANGED <<line, brk, lineno, seqno, nseqs, pins, longbits, batch_h,
                   batch_c, i, regs, foutc>>

ReadLoop == main_EOF \/ main_END \/ main_MYERROR \/ main_skip \/ main_accept

Passes ==
    \/ main_print_pinarray
    \/ calc_PINSEL \/ main_print_PINSEL
    \/ calc_PINMODE \/ main_print_PINMODE
    \/ calc_FIODIR \/ main_print_FIODIR
    \/ calc_FIOPIN \/ main_print_FIOPIN
    \/ calc_FIOMASK_fill \/ calc_FIOMASK \/ main_print_FIOMASK
    \/ main_finish

Next == ReadLoop \/ Passes

Spec == Init /\ [][Next]_vars

(***************************************************************************)
(* The register accumulator on its own.  The run starts after the read     *)
(* loop (line 374) of an input that holds up to MaxTab accepted rows and   *)
(* then an END line.  The rows put pins on both sides of the bit-16 split, *)
(* on neighbouring bits and on the last bit of the last port, with the     *)
(* configuration columns blank, 0/1, and larger.                           *)
(***************************************************************************)
\* the decimal text of n >= 0, as the spreadsheet writes it
RECURSIVE Dec(_)
Dec(n) ==
    IF n < 10 THEN <<Digits[n + 1]>>
    ELSE Dec(n \div 10) \o <<Digits[(n % 10) + 1]>>

\* a configuration column: blank when v < 0
Col(v) == IF v < 0 THEN <<>> ELSE Dec(v)

AccPositions == {<<0, 0>>, <<0, 1>>, <<0, 15>>, <<0, 16>>, <<4, 31>>}

\* <<func, inout, mode, odrain, def>>
AccProfiles ==
    {<<0 - 1, 0 - 1, 0 - 1, 0 - 1, 0 - 1>>,
     <<0, 0, 0, 0, 1>>,
     <<2, 1, 3, 1, 0>>,
     <<5, 2, 1, 0, 0>>}

AccRow(pos, prof) ==
    << <<"1">>, Dec(40 + pos[2]), Dec(pos[1]), Dec(pos[2]), <<>>, <<>>, <<>>,
       Quoted(<<"P">> \o Dec(pos[1]) \o <<"_">> \o Dec(pos[2])),
       Col(prof[1]), Col(prof[2]), Col(prof[3]), Col(prof[4]), Col(prof[5]), NL >>

AccRows == {AccRow(pos, prof) : pos \in AccPositions, prof \in AccProfiles}

\* the locals the parser leaves for each of these rows (all are accepted)
AccLocals == {LineOutcome(r).st : r \in AccRows}

InitAcc ==
    /\ pc = "print_pinarray"
    /\ line = RowEND
    /\ brk = "END"
    /\ exit_code = 0
    /\ i = 0
    /\ longbits \in {32, 64}
    /\ PINSEL = ZeroRegs(NSEL)
    /\ PINMODE = ZeroRegs(NSEL)
    /\ PINMODE_OD = ZeroRegs(NPORTS)
    /\ FIODIR = ZeroRegs(NPORTS)
    /\ FIOPIN = ZeroRegs(NPORTS)
    /\ FIOMASK = ZeroRegs(NPORTS)
    /\ \E n \in 0..MaxTab : \E sts \in [1..n -> AccLocals] :
         /\ pins = [j \in 1..n |-> FillPindef(sts[j], j - 1)]
         /\ seqno = n
         /\ nseqs = n
         /\ lineno = 1 + n
    /\ fouth = <<Plain("headers_note"), Plain("headers_h")>> \o BatchDecls_h(pins)
    /\ foutc = <<Plain("headers_note"), Plain("headers_c")>> \o BatchDecls_c(pins)
    /\ batch_h = BatchDecls_h(pins)
    /\ batch_c = BatchDecls_c(pins)

SpecAcc == InitAcc /\ [][Passes]_vars

(***************************************************************************)
(* The addressing of PINSEL and PINMODE on its own: the same run over the  *)
(* table of one row, for every pin of every port.                          *)
(***************************************************************************)
AddrPositions == {<<port, bit>> : port \in 0..(NPORTS - 1), bit \in 0..31}

AddrLocals ==
    {LineOutcome(AccRow(pos, prof)).st : pos \in AddrPositions, prof \in AccProfiles}

InitAddr ==
    /\ pc = "print_pinarray"
    /\ line = RowEND
    /\ brk = "END"
    /\ exit_code = 0
    /\ i = 0
    /\ longbits \in {32, 64}
    /\ PINSEL = ZeroRegs(NSEL)
    /\ PINMODE = ZeroRegs(NSEL)
    /\ PINMODE_OD = ZeroRegs(NPORTS)
    /\ FIODIR = ZeroRegs(NPORTS)
    /\ FIOPIN = ZeroRegs(NPORTS)
    /\ FIOMASK = ZeroRegs(NPORTS)
    /\ \E st \in AddrLocals : pins = <<FillPindef(st, 0)>>
    /\ seqno = 1
    /\ nseqs = 1
    /\ lineno = 2
    /\ fouth = <<Plain("headers_note"), Plain("headers_h")>> \o BatchDecls_h(pins)
    /\ foutc = <<Plain("headers_note"), Plain("headers_c")>> \o BatchDecls_c(pins)
    /\ batch_h = BatchDecls_h(pins)
    /\ batch_c = BatchDecls_c(pins)

SpecAddr == InitAddr /\ [][Passes]_vars

(***************************************************************************)
(* The passes over tables whose port or bit lies outside the registers:    *)
(* the parser takes any integer (lines 307-314).  The rows put a pin in    *)
(* range, on port 5 (the last sub-register of PINSEL, but no port          *)
(* register), on ports whose sub-register lies behind PINSEL, on bit 32    *)
(* and a negative bit, and on a port far outside the memory of the process.*)
(***************************************************************************)
\* the decimal text of any integer
SDec(n) == IF n < 0 THEN <<"-">> \o Dec(0 - n) ELSE Dec(n)

RangePositions ==
    {<<0, 1>>, <<5, 0>>, <<5, 16>>, <<6, 3>>, <<0, 32>>, <<0, 0 - 1>>,
     <<100000000, 0>>}

RangeRow(pos, prof) ==
    << <<"1">>, <<"4", "0">>, SDec(pos[1]), SDec(pos[2]), <<>>, <<>>, <<>>,
       Quoted(<<"S", "I", "G">>),
       Col(prof[1]), Col(prof[2]), Col(prof[3]), Col(prof[4]), Col(prof[5]), NL >>

RangeLocals ==
    {LineOutcome(RangeRow(pos, prof)).st : pos \in RangePositions, prof \in AccProfiles}

InitRange ==
    /\ pc = "print_pinarray"
    /\ line = RowEND
    /\ brk = "END"
    /\ exit_code = 0
    /\ i = 0
    /\ longbits \in {32, 64}
    /\ PINSEL = ZeroRegs(NSEL)
    /\ PINMODE = ZeroRegs(NSEL)
    /\ PINMODE_OD = ZeroRegs(NPORTS)
    /\ FIODIR = ZeroRegs(NPORTS)
    /\ FIOPIN = ZeroRegs(NPORTS)
    /\ FIOMASK = ZeroRegs(NPORTS)
    /\ \E n \in 1..MaxTab : \E sts \in [1..n -> RangeLocals] :
         /\ pins = [j \in 1..n |-> FillPindef(sts[j], j - 1)]
         /\ seqno = n
         /\ nseqs = n
         /\ lineno = 1 + n
    /\ fouth = <<Plain("headers_note"), Plain("headers_h")>> \o BatchDecls_h(pins)
    /\ foutc = <<Plain("headers_note"), Plain("headers_c")>> \o BatchDecls_c(pins)
    /\ batch_h = BatchDecls_h(pins)
    /\ batch_c = BatchDecls_c(pins)

SpecRange == InitRange /\ [][Passes]_vars

(***************************************************************************)
(* Properties                                                              *)
(***************************************************************************)
PassOrder ==
    <<"loop", "print_pinarray", "calc_PINSEL", "calc_PINMODE", "calc_FIODIR",
      "calc_FIOPIN", "calc_FIOMASK_fill", "calc_FIOMASK", "print_bits", "exit">>

PassIndex(name) == CHOOSE k \in 1..Len(PassOrder) : PassOrder[k] = name

\* the loop of pass `name` has gone over the whole table
PassDone(name) ==
    /\ exit_code = 0
    /\ \/ PassIndex(pc) > PassIndex(name)
       \/ pc = name /\ i >= nseqs

\* the per-pin declarations among the items written to a file
IsDecl(item) == item.kind \in {"extern", "const"}

Decls(f) == SelectSeq(f, IsDecl)

\* C1: a calc_PINSEL step for one pin changes only the 2-bit field at the
\* pin's shift in its target sub-register, and leaves there the pin's
\* function number masked to 2 bits, whatever the function number is
\* (0..3, larger, or the unset value 255).
C1_PinselStepOnlyItsField ==
    [][(pc = "calc_PINSEL" /\ i' = i + 1) =>
         LET p == pins[i + 1]
             t == PinselTarget(p)
             pair == {t.bit2, t.bit2 + 1}
         IN  /\ \A r \in 0..(NSEL - 1) : \A b \in 0..31 :
                    (r # t.reg \/ b \notin pair)
                        => (b \in PINSEL'[r] <=> b \in PINSEL[r])
             /\ PINSEL'[t.reg] \cap pair
                    = {b + t.bit2 : b \in NatBits(p.func % 4)}]_vars

\* C7: after the mask pass, bit b of FIOMASK[p] is 0 exactly when some
\* entry of the table has port p, bit b and function 0; any other function
\* number, the unset value included, clears no mask bit.
C7_MaskClearedExactlyForGpio ==
    PassDone("calc_FIOMASK") =>
        \A p \in 0..(NPORTS - 1) : \A b \in 0..31 :
            (b \notin FIOMASK[p]) <=>
                (\E j \in 1..nseqs :
                    pins[j].port = p /\ pins[j].bit = b /\ pins[j].func = 0)

C7_Witness ==
    /\ PassDone("calc_FIOMASK")
    /\ \E j, k \in 1..nseqs :
         /\ pins[j].func = 0 /\ pins[j].bit \notin FIOMASK[pins[j].port]
         /\ pins[k].func = NA /\ pins[k].bit \in FIOMASK[pins[k].port]

\* no two entries of the table share (port, bit)
UniquePortBit ==
    \A j, k \in 1..nseqs :
        (pins[j].port = pins[k].port /\ pins[j].bit = pins[k].bit) => j = k

\* C8: after the direction pass over a table with pairwise-unique
\* (port, bit), bit b of FIODIR[p] is 1 exactly when the table holds an
\* output pin (inout 0) at (p, b); it is 0 for an input pin, for a pin with
\* no direction and where there is no pin.
C8_DirectionSetExactlyForOutputs ==
    (PassDone("calc_FIODIR") /\ UniquePortBit) =>
        \A p \in 0..(NPORTS - 1) : \A b \in 0..31 :
            (b \in FIODIR[p]) <=>
                (\E j \in 1..nseqs :
                    pins[j].port = p /\ pins[j].bit = b /\ pins[j].inout = DIR_OUT)

C8_Witness ==
    /\ PassDone("calc_FIODIR")
    /\ UniquePortBit
    /\ \E j, k \in 1..nseqs :
         /\ pins[j].inout = DIR_OUT /\ pins[j].bit \in FIODIR[pins[j].port]
         /\ pins[k].inout = NA /\ pins[k].bit \notin FIODIR[pins[k].port]

\* the register families and the size of each image
Families ==
    {<<"PINSEL_INIT", NSEL>>, <<"PINMODE_INIT", NSEL>>,
     <<"PINMODE_OD_INIT", NPORTS>>, <<"FIODIR_INIT", NPORTS>>,
     <<"FIOPIN_INIT", NPORTS>>, <<"FIOMASK_INIT", NPORTS>>}

Image(family) ==
    CASE family = "PINSEL_INIT" -> PINSEL
      [] family = "PINMODE_INIT" -> PINMODE
      [] family = "PINMODE_OD_INIT" -> PINMODE_OD
      [] family = "FIODIR_INIT" -> FIODIR
      [] family = "FIOPIN_INIT" -> FIOPIN
      [] OTHER -> FIOMASK

\* C9: when the run has ended successfully the H file holds, for every
\* element of every register image, exactly one initializer constant, and
\* it carries the value computed for that element.
C9_EveryRegisterEmittedOnce ==
    (pc = "exit" /\ exit_code = 0) =>
        \A fam \in Families : \A r \in 0..(fam[2] - 1) :
            /\ Cardinality({k \in 1..Len(fouth) :
                   fouth[k].kind = fam[1] /\ fouth[k].idx = r}) = 1
            /\ \A k \in 1..Len(fouth) :
                   (fouth[k].kind = fam[1] /\ fouth[k].idx = r)
                       => fouth[k].bits = Image(fam[1])[r]

(***************************************************************************)
(* Properties of the record parser.  In a step that counts a line          *)
(* (lineno' = lineno + 1), line' is the line that step read.               *)
(***************************************************************************)
PinField(l) == FieldText(RawField(l, 1))

\* field 1 begins with the marker N/A
PinIsNA(l) == RawField(l, 1) # <<>> /\ strncmp_eq(PinField(l), <<"N", "/", "A">>)

\* the physical pin is 0: the field is blank, or it reads as the number 0
PinIsZero(l) ==
    \/ RawField(l, 1) = <<>>
    \/ sscanf_d(PinField(l)).n = 1 /\ sscanf_d(PinField(l)).v = 0

\* no signal name in field 7
NameMissing(l) == FieldText(RawField(l, 7)) = <<>>

Skippable(l) == PinIsNA(l) \/ PinIsZero(l) \/ NameMissing(l)

\* field idx is there and does not read as an integer
BadInt(l, idx) ==
    RawField(l, idx) # <<>> /\ sscanf_d(FieldText(RawField(l, idx))).n = 0

\* the first of fields 0..3 that does not read as an integer, scanning left
\* to right and stopping at an N/A in field 1; -1 when there is none
FatalField(l) ==
    IF BadInt(l, 0) THEN 0
    ELSE IF PinIsNA(l) THEN 0 - 1
    ELSE IF BadInt(l, 1) THEN 1
    ELSE IF BadInt(l, 2) THEN 2
    ELSE IF BadInt(l, 3) THEN 3
    ELSE 0 - 1

\* C2: a counted line whose physical pin is 0 or N/A, or whose signal name
\* is missing, leaves the pin table and the accepted count as they were and
\* writes nothing to either output file.
C2_SkippedLineLeavesNoTrace ==
    [][(pc = "loop" /\ lineno' = lineno + 1 /\ Skippable(line')) =>
         (pins' = pins /\ seqno' = seqno /\ fouth' = fouth /\ foutc' = foutc)]_vars

C2_Witness ==
    /\ pc = "loop"
    /\ exit_code = 0
    /\ seqno >= 1
    /\ lineno > seqno + 1
    /\ NameMissing(line)
    /\ ~PinIsZero(line)
    /\ ~PinIsNA(line)

\* the line says itself that it is to be skipped: field 1 is N/A or reads
\* as 0, or the line has a field 7 and it is empty
MarkedSkip(l) ==
    \/ PinIsNA(l)
    \/ sscanf_d(PinField(l)).n = 1 /\ sscanf_d(PinField(l)).v = 0
    \/ Len(l) >= 8 /\ NameMissing(l)

\* C3 as stated: the run ends with exit code 99 only on an integer-parse
\* failure of field 0, 2 or 3, and never on a line that is skipped for an
\* N/A or zero physical pin or for an empty signal name.
C3_FatalOnlyOnAcceptedLine ==
    exit_code = 99 => (FatalField(line) \in {0, 2, 3} /\ ~MarkedSkip(line))

\* C3 as amended: a counted line ends the run with exit code 99 exactly
\* when one of its fields 0, 1, 2, 3 is non-empty and does not read as an
\* integer, scanning left to right and stopping at an N/A in field 1; this
\* holds for lines that would be skipped as well.  Any other line raises no
\* error and the run goes on (to the next line, or past a full table).
C3_FatalExactlyOnBadRequiredField ==
    [][(pc = "loop" /\ lineno' = lineno + 1) =>
         /\ (exit_code' = 99) <=> (FatalField(line') \in 0..3)
         /\ (exit_code' # 99) => (exit_code' = 0 /\ pc' \in {"loop", "print_pinarray"})]_vars

C3_Witness ==
    /\ exit_code = 99
    /\ seqno >= 1
    /\ FatalField(line) = 2
    /\ PinIsZero(line)

\* C4: at every point of the read loop and after it, the sequence values
\* stored in the pin table are 0..k-1 in table order for the k entries
\* accepted, whatever the item column of the input held and however many
\* lines were skipped.
C4_SequenceIsTablePosition ==
    /\ Len(pins) = seqno
    /\ \A j \in 1..Len(pins) : pins[j].seq = j - 1

C4_Witness ==
    /\ seqno >= 2
    /\ lineno > seqno + 1
    /\ pins[1].signame = <<"L", "E", "D">>
    /\ pins[2].signame = <<"S", "W">>

\* C5: the pin table never holds more than MAXPINS entries and every write
\* to it lands below index MAXPINS; once the table is full no further line
\* is read or counted, no entry or declaration is added, no fatal error is
\* raised, and the run ends with exit code 0.
C5_TableNeverExceedsCapacity ==
    /\ [](Len(pins) <= MAXPINS /\ seqno <= MAXPINS)
    /\ [][pins' # pins =>
            (Len(pins) < MAXPINS /\ SubSeq(pins', 1, Len(pins)) = pins
             /\ Len(pins') = Len(pins) + 1)]_vars
    /\ [][seqno >= MAXPINS =>
            (/\ pins' = pins /\ seqno' = seqno
             /\ line' = line /\ lineno' = lineno
             /\ Decls(fouth') = Decls(fouth) /\ Decls(foutc') = Decls(foutc)
             /\ exit_code' = 0 /\ pc' # "loop")]_vars
    /\ []((seqno >= MAXPINS) => (pc # "loop" /\ exit_code = 0))

C5_Witness ==
    /\ seqno = MAXPINS
    /\ brk = "MAXPINS"
    /\ pc = "exit"
    /\ exit_code = 0

\* C6: a line whose first three characters are END ends the read loop
\* before any field is parsed: it is not counted, adds no entry, raises no
\* error, and the run goes on to the passes with the entries accepted so
\* far; after the read loop no line is read, no entry added and no error
\* raised.
StartsWithEND(l) ==
    l # <<>> /\ Len(l[1]) >= 3 /\ SubSeq(l[1], 1, 3) = <<"E", "N", "D">>

C6_ENDStopsInput ==
    /\ [][(pc = "loop" /\ StartsWithEND(line')) =>
            (/\ lineno' = lineno /\ pins' = pins /\ seqno' = seqno
             /\ fouth' = fouth /\ foutc' = foutc
             /\ exit_code' = 0 /\ pc' = "print_pinarray" /\ nseqs' = seqno)]_vars
    /\ [][pc # "loop" =>
            (/\ line' = line /\ lineno' = lineno /\ pins' = pins
             /\ seqno' = seqno /\ exit_code' # 99 /\ pc' # "loop")]_vars

C6_Witness ==
    /\ brk = "END"
    /\ line = RowENDData
    /\ pc = "exit"
    /\ exit_code = 0
    /\ seqno >= 1
    /\ lineno = 3

\* C10 as stated: for every input, one that ends in a fatal parse error
\* included, the per-pin declarations written while parsing are those an
\* emit-after-parsing run leaves in each file.
C10_InterleavedEqualsBatch ==
    pc = "exit" => (Decls(fouth) = batch_h /\ Decls(foutc) = batch_c)

\* C10 as amended: at every point each file holds one declaration per
\* accepted entry, each once, in table order; and for every input that is
\* processed without a fatal parse error this is what an emit-after-parsing
\* run leaves.  (After a fatal error the files hold the declarations of the
\* entries accepted before it.)
C10_DeclsFollowTable ==
    /\ Len(Decls(fouth)) = Len(pins)
    /\ Len(Decls(foutc)) = Len(pins)
    /\ \A j \in 1..Len(pins) :
         /\ Decls(fouth)[j].kind = "extern"
         /\ Decls(fouth)[j].name = pins[j].signame
         /\ Decls(foutc)[j].kind = "const"
         /\ Decls(foutc)[j].name = pins[j].signame
         /\ Decls(foutc)[j].pd = pins[j]
    /\ (pc = "exit" /\ exit_code = 0) =>
         (Decls(fouth) = batch_h /\ Decls(foutc) = batch_c)

C10_Witness ==
    /\ pc = "exit"
    /\ exit_code = 99
    /\ seqno >= 2
    /\ Len(Decls(fouth)) = 2
    /\ batch_h = <<>>

(***************************************************************************)
(* The register accumulator as a function of the table: each calc_*        *)
(* function run to its end from the state main() gives it.                 *)
(***************************************************************************)
\* the loop body of the pass that updates image fam
StepOf(fam, R, p) ==
    CASE fam = "PINSEL" -> PinselStep(R, p)
      [] fam = "PINMODE" -> PinmodeStep(R, p)
      [] fam = "PINMODE_OD" -> PinmodeOdStep(R, p)
      [] fam = "FIODIR" -> FiodirStep(R, p)
      [] fam = "FIOPIN" -> FiopinStep(R, p)
      [] OTHER -> FiomaskStep(R, p)

\* for(i=0;i<nseqs;i++) { ... one step per entry, in table order ... }
FoldPass(fam, R0, tab) ==
    LET f[k \in 0..Len(tab)] ==
            IF k = 0 THEN R0 ELSE StepOf(fam, f[k - 1], tab[k])
    IN  f[Len(tab)]

\* calc_PINMODE updates PINMODE and PINMODE_OD in the same loop; neither
\* update reads the other register
FinalImages(tab) ==
    [fam \in {FamOrder[k] : k \in 1..Len(FamOrder)} |->
        FoldPass(fam,
                 IF fam = "FIOMASK" THEN [r \in 0..(NPORTS - 1) |-> AllOnes32]
                 ELSE ZeroRegs(FamSize(fam)),
                 tab)]

\* the orders a table of n entries can be put in
TableOrders(n) ==
    {f \in [1..n -> 1..n] : \A j, k \in 1..n : f[j] = f[k] => j = k}

Shuffled(tab, f) == [j \in 1..Len(tab) |-> tab[f[j]]]

\* C11: when the five passes have run over a table with pairwise-unique
\* (port, bit), the images of all six families are the ones the passes
\* compute from the initial registers over every other order of the same
\* entries, whatever the entries' function, mode, direction, open-drain and
\* default values are (the unset value 255 included).
C11_ShuffledTableSameImages ==
    (pc = "print_bits" /\ UniquePortBit) =>
        \A f \in TableOrders(nseqs) : FinalImages(Shuffled(pins, f)) = Images

\* the split at bit 16: sub-register and shift of pin (port, bit)
AddressingRule(port, bit) ==
    IF bit < 16 THEN [reg |-> 2 * port, bit2 |-> 2 * bit]
    ELSE [reg |-> 2 * port + 1, bit2 |-> 2 * (bit - 16)]

\* bit b of word r of image R is 1 exactly where the 2-bit value sits at
\* target t (the low 32 bits of the image are looked at)
OnlyFieldAt(R, t, value) ==
    \A r \in 0..(NSEL - 1) : \A b \in 0..31 :
        (b \in R[r]) <=> (r = t.reg /\ (b - t.bit2) \in NatBits(value))

\* C12: for every port 0..4 and bit 0..31 the function-select pass and the
\* mode pass compute the target the split at bit 16 gives (sub-register
\* 2*port, shift 2*bit below bit 16; sub-register 2*port+1, shift
\* 2*(bit-16) from bit 16 on), and a function or mode number 1..3 of the
\* only entry of a table ends up at exactly that place of PINSEL and of
\* PINMODE.
C12_BothPassesSameTarget ==
    \A j \in 1..nseqs :
        LET p == pins[j]
            t == AddressingRule(p.port, p.bit)
        IN  /\ PinselTarget(p) = t
            /\ PinmodeTarget(p) = t
            /\ (nseqs = 1 /\ PassDone("calc_PINSEL") /\ p.func \in 1..3)
                   => OnlyFieldAt(PINSEL, t, p.func)
            /\ (nseqs = 1 /\ PassDone("calc_PINMODE") /\ p.mode \in 1..3)
                   => OnlyFieldAt(PINMODE, t, p.mode)

\* port 0, bit 16 has gone to sub-register 1, shift 0, in both passes
C12_Witness ==
    /\ PassDone("calc_PINMODE")
    /\ nseqs = 1
    /\ pins[1].port = 0 /\ pins[1].bit = 16
    /\ pins[1].func = 2 /\ pins[1].mode = 3
    /\ PINSEL[1] = {1} /\ PINSEL[0] = {}
    /\ PINMODE[1] = {0, 1} /\ PINMODE[0] = {}

\* the accesses the loop iteration that comes next makes
NextAccesses ==
    IF i >= nseqs THEN <<>>
    ELSE CASE pc = "calc_PINSEL" -> PinselAccesses(pins[i + 1])
           [] pc = "calc_PINMODE" -> PinmodeAccesses(pins[i + 1])
           [] pc = "calc_FIODIR" -> FiodirAccesses(pins[i + 1])
           [] pc = "calc_FIOPIN" -> FiopinAccesses(pins[i + 1])
           [] pc = "calc_FIOMASK" -> FiomaskAccesses(pins[i + 1])
           [] OTHER -> <<>>

\* C13: for every table the parser can produce, every access a pass makes
\* has its index inside the image it addresses (0..10 for PINSEL and
\* PINMODE, 0..4 for PINMODE_OD, FIODIR, FIOPIN and FIOMASK) and a shift
\* count within 0..31.
C13_AccessesStayInRange ==
    \A k \in 1..Len(NextAccesses) :
        /\ NextAccesses[k].idx \in 0..(FamSize(NextAccesses[k].fam) - 1)
        /\ NextAccesses[k].shift \in 0..31
====
